---- MODULE Spec2Model ----
(***************************************************************************)
(* Model of xla::primitive_util (primitive_util.cc): the floating-point    *)
(* trait queries (SignificandWidth .. HasInfinity) and the lazily built    *)
(* name registry (LowercasePrimitiveTypeName, StringToPrimitiveType,       *)
(* IsPrimitiveTypeName).                                                   *)
(*                                                                         *)
(* Strings are sequences of one-character strings, so that lower-casing,   *)
(* formatting and substring search are computed character by character.    *)
(***************************************************************************)
EXTENDS Integers, Sequences, FiniteSets, TLC

VARIABLES
  gen_guard,        \* guard of `static auto* gen` (line 221)
  lowercase_name_,  \* PrimitiveTypeNameGenerator::lowercase_name_ (line 217)
  map_guard,        \* guard of `static ... name_to_type` (line 233)
  map,              \* the flat_hash_map allocated at line 234
  ctor_runs,        \* history: how often each construction was started
  pc,               \* per thread: position in the code
  op,               \* per thread: the public function it last called
  arg,              \* per thread: that call's argument
  ret,              \* per thread: that call's return value
  in_map,           \* per thread: inside the lambda of lines 233-243
  ctor_i,           \* per thread: `i` of the loop at line 202
  map_i,            \* per thread: `i` of the loop at line 235
  fatal,            \* how the process died, "none" while it runs
  t_fn,             \* trait query last called
  t_type,           \* its argument
  t_ret             \* its outcome

vars == <<gen_guard, lowercase_name_, map_guard, map, ctor_runs, pc, op, arg,
          ret, in_map, ctor_i, map_i, fatal, t_fn, t_type, t_ret>>

registryVars == <<gen_guard, lowercase_name_, map_guard, map, ctor_runs, pc, op,
                  arg, ret, in_map, ctor_i, map_i, fatal>>

traitVars == <<t_fn, t_type, t_ret>>

(***************************************************************************)
(* Bounds of the model.                                                    *)
(***************************************************************************)
\* number of threads calling the registry concurrently
NumThreads == 2

\* how many ordinals below 0 and above PrimitiveType_ARRAYSIZE - 1 are tried
OutOfRange == 2

Threads == 1..NumThreads

(***************************************************************************)
(* enum PrimitiveType (xla_data.proto): ordinals, array size, validity and *)
(* display names.                                                          *)
(***************************************************************************)
PRIMITIVE_TYPE_INVALID == 0
PRED == 1
S8 == 2
S16 == 3
S32 == 4
S64 == 5
U8 == 6
U16 == 7
U32 == 8
U64 == 9
F16 == 10
F32 == 11
F64 == 12
TUPLE == 13
OPAQUE_TYPE == 14
C64 == 15
BF16 == 16
TOKEN == 17
C128 == 18
F8E5M2 == 19
F8E4M3FN == 20
S4 == 21
U4 == 22
F8E4M3B11FNUZ == 23
F8E5M2FNUZ == 24
F8E4M3FNUZ == 25

PrimitiveType_ARRAYSIZE == 26

PrimitiveType_IsValid(i) ==
  i \in {PRIMITIVE_TYPE_INVALID, PRED, S8, S16, S32, S64, U8, U16, U32, U64,
         F16, F32, F64, TUPLE, OPAQUE_TYPE, C64, BF16, TOKEN, C128, F8E5M2,
         F8E4M3FN, S4, U4, F8E4M3B11FNUZ, F8E5M2FNUZ, F8E4M3FNUZ}

PrimitiveType_Name(i) ==
  CASE i = PRIMITIVE_TYPE_INVALID -> <<"P", "R", "I", "M", "I", "T", "I", "V", "E", "_", "T", "Y", "P", "E", "_", "I", "N", "V", "A", "L", "I", "D">>
    [] i = PRED                   -> <<"P", "R", "E", "D">>
    [] i = S8                     -> <<"S", "8">>
    [] i = S16                    -> <<"S", "1", "6">>
    [] i = S32                    -> <<"S", "3", "2">>
    [] i = S64                    -> <<"S", "6", "4">>
    [] i = U8                     -> <<"U", "8">>
    [] i = U16                    -> <<"U", "1", "6">>
    [] i = U32                    -> <<"U", "3", "2">>
    [] i = U64                    -> <<"U", "6", "4">>
    [] i = F16                    -> <<"F", "1", "6">>
    [] i = F32                    -> <<"F", "3", "2">>
    [] i = F64                    -> <<"F", "6", "4">>
    [] i = TUPLE                  -> <<"T", "U", "P", "L", "E">>
    [] i = OPAQUE_TYPE            -> <<"O", "P", "A", "Q", "U", "E", "_", "T", "Y", "P", "E">>
    [] i = C64                    -> <<"C", "6", "4">>
    [] i = BF16                   -> <<"B", "F", "1", "6">>
    [] i = TOKEN                  -> <<"T", "O", "K", "E", "N">>
    [] i = C128                   -> <<"C", "1", "2", "8">>
    [] i = F8E5M2                 -> <<"F", "8", "E", "5", "M", "2">>
    [] i = F8E4M3FN               -> <<"F", "8", "E", "4", "M", "3", "F", "N">>
    [] i = S4                     -> <<"S", "4">>
    [] i = U4                     -> <<"U", "4">>
    [] i = F8E4M3B11FNUZ          -> <<"F", "8", "E", "4", "M", "3", "B", "1", "1", "F", "N", "U", "Z">>
    [] i = F8E5M2FNUZ             -> <<"F", "8", "E", "5", "M", "2", "F", "N", "U", "Z">>
    [] i = F8E4M3FNUZ             -> <<"F", "8", "E", "4", "M", "3", "F", "N", "U", "Z">>

\* the values a PrimitiveType variable is given here: every ordinal of the
\* array, and OutOfRange ordinals on either side of it
TagInputs == (0 - OutOfRange)..(PrimitiveType_ARRAYSIZE - 1 + OutOfRange)

InRange == 0..(PrimitiveType_ARRAYSIZE - 1)

FloatingPointTags ==
  {F16, F32, F64, BF16, F8E5M2, F8E4M3FN, F8E4M3B11FNUZ, F8E5M2FNUZ, F8E4M3FNUZ}

Float8Tags == {F8E5M2, F8E4M3FN, F8E4M3B11FNUZ, F8E5M2FNUZ, F8E4M3FNUZ}

(***************************************************************************)
(* Outcome of a trait query: a value, or LOG(FATAL) ending the process.    *)
(***************************************************************************)
Ret(v) == [fatal |-> FALSE, value |-> v]

Fatal == [fatal |-> TRUE, value |-> 0]

\* primitive_util.h: the bit width of an array type; no width for the rest
BitWidth(type) ==
  CASE type \in {PRED}                          -> Ret(1)
    [] type \in {S4, U4}                        -> Ret(4)
    [] type \in {S8, U8} \cup Float8Tags        -> Ret(8)
    [] type \in {S16, U16, F16, BF16}           -> Ret(16)
    [] type \in {S32, U32, F32}                 -> Ret(32)
    [] type \in {S64, U64, F64, C64}            -> Ret(64)
    [] type \in {C128}                          -> Ret(128)
    [] OTHER                                    -> Fatal

\* a default case that returns 0 where the code logs fatally
SignificandWidthNoDefaultFatal(type) ==
  CASE type = F32           -> Ret(24)
    [] type = F64           -> Ret(53)
    [] type = BF16          -> Ret(8)
    [] type = F16           -> Ret(11)
    [] type = F8E5M2        -> Ret(3)
    [] type = F8E4M3FN      -> Ret(4)
    [] type = F8E4M3B11FNUZ -> Ret(4)
    [] type = F8E5M2FNUZ    -> Ret(3)
    [] type = F8E4M3FNUZ    -> Ret(4)
    [] OTHER                -> Ret(0)

\* lines 31-54; std::numeric_limits<T>::digits of each format
SignificandWidth(type) ==
  CASE type = F32           -> Ret(24)
    [] type = F64           -> Ret(53)
    [] type = BF16          -> Ret(8)
    [] type = F16           -> Ret(11)
    [] type = F8E5M2        -> Ret(3)
    [] type = F8E4M3FN      -> Ret(4)
    [] type = F8E4M3B11FNUZ -> Ret(4)
    [] type = F8E5M2FNUZ    -> Ret(3)
    [] type = F8E4M3FNUZ    -> Ret(4)
    [] OTHER                -> Fatal

\* lines 56-67
ExponentWidth(type) ==
  LET total_bit_width == BitWidth(type) IN
  IF total_bit_width.fatal THEN Fatal
  ELSE LET sw == SignificandWidth(type) IN
       IF sw.fatal THEN Fatal
       ELSE LET trailing_significand_field_width == sw.value - 1
                kSignBitWidth == 1
            IN  Ret(total_bit_width.value
                    - (trailing_significand_field_width + kSignBitWidth))

\* lines 69-97; std::numeric_limits<T>::min_exponent of each format
UnderflowExponent(type) ==
  CASE type = F32           -> Ret(0 - 125)
    [] type = F64           -> Ret(0 - 1021)
    [] type = BF16          -> Ret(0 - 125)
    [] type = F16           -> Ret(0 - 13)
    [] type = F8E5M2        -> Ret(0 - 13)
    [] type = F8E4M3FN      -> Ret(0 - 5)
    [] type = F8E4M3B11FNUZ -> Ret(0 - 9)
    [] type = F8E5M2FNUZ    -> Ret(0 - 14)
    [] type = F8E4M3FNUZ    -> Ret(0 - 6)
    [] OTHER                -> Fatal

\* lines 99-127; std::numeric_limits<T>::max_exponent of each format
OverflowExponent(type) ==
  CASE type = F32           -> Ret(128)
    [] type = F64           -> Ret(1024)
    [] type = BF16          -> Ret(128)
    [] type = F16           -> Ret(16)
    [] type = F8E5M2        -> Ret(16)
    [] type = F8E4M3FN      -> Ret(9)
    [] type = F8E4M3B11FNUZ -> Ret(5)
    [] type = F8E5M2FNUZ    -> Ret(16)
    [] type = F8E4M3FNUZ    -> Ret(8)
    [] OTHER                -> Fatal

\* 1 << n on a 32-bit int; n stays within 0..30 for every exponent width
ShiftLeftOne(n) == 2 ^ n

\* the three FNUZ variants sent through the generic formula as well
ExponentBiasAllGeneric(type) ==
  IF type \in FloatingPointTags
  THEN Ret(ShiftLeftOne(ExponentWidth(type).value - 1) - 1)
  ELSE Fatal

\* lines 129-147
ExponentBias(type) ==
  CASE type \in {F32, BF16, F16, F64, F8E5M2, F8E4M3FN}
                            -> Ret(ShiftLeftOne(ExponentWidth(type).value - 1) - 1)
    [] type = F8E4M3B11FNUZ -> Ret(11)
    [] type = F8E4M3FNUZ    -> Ret(8)
    [] type = F8E5M2FNUZ    -> Ret(16)
    [] OTHER                -> Fatal

\* the IEEE-like F8E4M3FN taken to have an infinity as F8E5M2 has
HasInfinityE4M3FN(type) ==
  Ret(type \in {F32, F64, BF16, F16, F8E5M2, F8E4M3FN})

\* lines 149-174; std::numeric_limits<T>::has_infinity of each format
HasInfinity(type) ==
  CASE type = F32           -> Ret(TRUE)
    [] type = F64           -> Ret(TRUE)
    [] type = BF16          -> Ret(TRUE)
    [] type = F16           -> Ret(TRUE)
    [] type = F8E5M2        -> Ret(TRUE)
    [] type = F8E4M3FN      -> Ret(FALSE)
    [] type = F8E4M3B11FNUZ -> Ret(FALSE)
    [] type = F8E5M2FNUZ    -> Ret(FALSE)
    [] type = F8E4M3FNUZ    -> Ret(FALSE)
    [] OTHER                -> Ret(FALSE)

(***************************************************************************)
(* Strings.                                                                *)
(***************************************************************************)
UpperToLower ==
  "A" :> "a" @@ "B" :> "b" @@ "C" :> "c" @@ "D" :> "d" @@ "E" :> "e" @@ "F" :> "f" @@ "G" :> "g" @@
  "H" :> "h" @@ "I" :> "i" @@ "J" :> "j" @@ "K" :> "k" @@ "L" :> "l" @@ "M" :> "m" @@ "N" :> "n" @@
  "O" :> "o" @@ "P" :> "p" @@ "Q" :> "q" @@ "R" :> "r" @@ "S" :> "s" @@ "T" :> "t" @@ "U" :> "u" @@
  "V" :> "v" @@ "W" :> "w" @@ "X" :> "x" @@ "Y" :> "y" @@ "Z" :> "z"

\* absl::ascii_tolower
AsciiToLower(c) == IF c \in DOMAIN UpperToLower THEN UpperToLower[c] ELSE c

\* absl::AsciiStrToLower
AsciiStrToLower(s) == [k \in 1..Len(s) |-> AsciiToLower(s[k])]

\* whether `needle` occurs in `s` as a contiguous run of characters
Contains(s, needle) ==
  \E k \in 0..(Len(s) - Len(needle)) :
    \A j \in 1..Len(needle) : s[k + j] = needle[j]

EmptyString == <<>>

Opaque == <<"o", "p", "a", "q", "u", "e">>

OpaqueTypeName == <<"o", "p", "a", "q", "u", "e", "_", "t", "y", "p", "e">>

NotARealType == <<"n", "o", "t", "_", "a", "_", "r", "e", "a", "l", "_", "t", "y", "p", "e">>

PrimitiveTypeInvalidName ==
  <<"p", "r", "i", "m", "i", "t", "i", "v", "e", "_", "t", "y", "p", "e", "_",
    "i", "n", "v", "a", "l", "i", "d">>

\* the strings handed to the parser besides names the registry returned
QueryNames ==
  {Opaque, OpaqueTypeName, NotARealType, PrimitiveTypeInvalidName, EmptyString,
   <<"f", "3", "2">>, <<"F", "3", "2">>}

\* the tags handed to LowercasePrimitiveTypeName by callers: the first and
\* last ordinals, a floating-point tag, the opaque tag and every
\* out-of-range ordinal of TagInputs
LowercaseInputs ==
  (TagInputs \ InRange) \cup {PRIMITIVE_TYPE_INVALID, F32, OPAQUE_TYPE, F8E4M3FNUZ}

\* what a read below lowercase_name_[0] may yield when it does not fault
UBStrings == {EmptyString, NotARealType}

(***************************************************************************)
(* StatusOr<PrimitiveType>.                                                *)
(***************************************************************************)
OkStatus(value) ==
  [ok |-> TRUE, value |-> value, code |-> "OK", message |-> EmptyString]

\* util.h InvalidArgument: StrFormat of the format string with its argument
InvalidArgument(prefix, name, suffix) ==
  [ok |-> FALSE, value |-> PRIMITIVE_TYPE_INVALID, code |-> "INVALID_ARGUMENT",
   message |-> prefix \o name \o suffix]

\* "Invalid element type string: \"%s\".", up to and after the %s
ErrorPrefix ==
  <<"I", "n", "v", "a", "l", "i", "d", " ", "e", "l", "e", "m", "e", "n", "t",
    " ", "t", "y", "p", "e", " ", "s", "t", "r", "i", "n", "g", ":", " ", "\"">>

ErrorSuffix == <<"\"", ".">>

(***************************************************************************)
(* The registry's code.                                                    *)
(***************************************************************************)
\* a hand-rolled `if (ptr == nullptr)` check in place of the static's guard:
\* every thread that arrives before the construction has finished starts one
GuardAcquireRacy(guard) == guard # "done"

\* function-local static (lines 221, 233): the one thread that finds the
\* guard untouched runs the initializer
GuardAcquire(guard) == guard = "uninit"

\* function-local static: later threads pass once the initializer has run;
\* while it runs they wait
GuardReady(guard) == guard = "done"

\* the constructor without its OPAQUE_TYPE branch
CtorAssignNoOpaque(names, i) ==
  IF PrimitiveType_IsValid(i)
  THEN [names EXCEPT ![i] = AsciiStrToLower(PrimitiveType_Name(i))]
  ELSE names

\* lines 203-208: one iteration of the constructor's loop
CtorAssign(names, i) ==
  IF i = OPAQUE_TYPE
  THEN [names EXCEPT ![i] = Opaque]
  ELSE IF PrimitiveType_IsValid(i)
       THEN [names EXCEPT ![i] = AsciiStrToLower(PrimitiveType_Name(i))]
       ELSE names

\* line 212: CHECK_LT(t, PrimitiveType_ARRAYSIZE)
LowercaseNameCheck(t) == t < PrimitiveType_ARRAYSIZE

\* a loop that stops one ordinal early
MapLoopBoundOffByOne == PrimitiveType_ARRAYSIZE - 1

\* line 235: i < PrimitiveType_ARRAYSIZE
MapLoopBound == PrimitiveType_ARRAYSIZE

\* the filter without its PRIMITIVE_TYPE_INVALID exclusion
MapInsertCondAllValid(i) == PrimitiveType_IsValid(i)

\* line 236
MapInsertCond(i) == PrimitiveType_IsValid(i) /\ i # PRIMITIVE_TYPE_INVALID

\* flat_hash_map operator[] followed by assignment
MapPut(m, key, value) ==
  [k \in DOMAIN m \cup {key} |-> IF k = key THEN value ELSE m[k]]

\* line 241: the key of the alias
AliasKey == Opaque

\* an error that does not carry the offending input
StringToPrimitiveTypeNoEcho(m, name) ==
  IF name \notin DOMAIN m
  THEN InvalidArgument(ErrorPrefix, EmptyString, ErrorSuffix)
  ELSE OkStatus(m[name])

\* lines 249-256
StringToPrimitiveType(m, name) ==
  IF name \notin DOMAIN m
  THEN InvalidArgument(ErrorPrefix, name, ErrorSuffix)
  ELSE OkStatus(m[name])

\* a lookup that lower-cases its input before searching
IsPrimitiveTypeNameLenient(m, name) == AsciiStrToLower(name) \in DOMAIN m

\* lines 258-262
IsPrimitiveTypeName(m, name) == name \in DOMAIN m

(***************************************************************************)
(* Initial state: no static has been initialized, no call has been made.   *)
(***************************************************************************)
\* the argument and result slots of a thread that holds none
NoArg == [kind |-> "none"]

NoRet == [kind |-> "none"]

Init ==
  /\ gen_guard = "uninit"
  /\ lowercase_name_ = [i \in InRange |-> EmptyString]
  /\ map_guard = "uninit"
  /\ map = <<>>
  /\ ctor_runs = [gen |-> 0, map |-> 0]
  /\ pc = [t \in Threads |-> "idle"]
  /\ op = [t \in Threads |-> "none"]
  /\ arg = [t \in Threads |-> NoArg]
  /\ ret = [t \in Threads |-> NoRet]
  /\ in_map = [t \in Threads |-> FALSE]
  /\ ctor_i = [t \in Threads |-> 0]
  /\ map_i = [t \in Threads |-> 0]
  /\ fatal = "none"
  /\ t_fn = "none"
  /\ t_type = PRIMITIVE_TYPE_INVALID
  /\ t_ret = Ret(0)

(***************************************************************************)
(* The name registry, one action per step of a calling thread.             *)
(***************************************************************************)
\* names some thread currently holds as the result of a forward lookup
ReturnedNames ==
  {ret[u] : u \in {v \in Threads : op[v] = "LowercasePrimitiveTypeName"
                                   /\ pc[v] = "idle"}}

\* line 221: `static auto* gen = new PrimitiveTypeNameGenerator()`, as thread
\* t reaches it: the static is initialized, or t initializes it, or t waits
\* for the thread that does
GenInit(t) ==
  \/ /\ GuardReady(gen_guard)
     /\ pc' = [pc EXCEPT ![t] = "L_name"]
     /\ UNCHANGED <<gen_guard, lowercase_name_, ctor_runs, ctor_i>>
  \/ /\ GuardAcquire(gen_guard)
     /\ gen_guard' = "running"
     /\ lowercase_name_' = [i \in InRange |-> EmptyString]
     /\ ctor_runs' = [ctor_runs EXCEPT !.gen = @ + 1]
     /\ ctor_i' = [ctor_i EXCEPT ![t] = 0]
     /\ pc' = [pc EXCEPT ![t] = "L_ctor"]
  \/ /\ ~GuardReady(gen_guard)
     /\ ~GuardAcquire(gen_guard)
     /\ pc' = [pc EXCEPT ![t] = "L_static"]
     /\ UNCHANGED <<gen_guard, lowercase_name_, ctor_runs, ctor_i>>

\* line 233: `static ... name_to_type = [] { static auto* map = new ...`, as
\* thread t reaches it
MapInit(t) ==
  \/ /\ GuardReady(map_guard)
     /\ pc' = [pc EXCEPT ![t] = "M_find"]
     /\ UNCHANGED <<map_guard, map, ctor_runs, in_map, map_i>>
  \/ /\ GuardAcquire(map_guard)
     /\ map_guard' = "running"
     /\ map' = <<>>
     /\ ctor_runs' = [ctor_runs EXCEPT !.map = @ + 1]
     /\ in_map' = [in_map EXCEPT ![t] = TRUE]
     /\ map_i' = [map_i EXCEPT ![t] = 0]
     /\ pc' = [pc EXCEPT ![t] = "M_loop"]
  \/ /\ ~GuardReady(map_guard)
     /\ ~GuardAcquire(map_guard)
     /\ pc' = [pc EXCEPT ![t] = "M_static"]
     /\ UNCHANGED <<map_guard, map, ctor_runs, in_map, map_i>>

\* a caller enters one of the three public functions. The argument plays no
\* part until the table or the map is read, and is drawn at that step.
Enter(t, fn) ==
  /\ fatal = "none"
  /\ pc[t] = "idle"
  /\ op' = [op EXCEPT ![t] = fn]
  /\ arg' = [arg EXCEPT ![t] = NoArg]
  /\ ret' = [ret EXCEPT ![t] = NoRet]

\* lines 220-221: LowercasePrimitiveTypeName(s) up to its static
CallLowercasePrimitiveTypeName(t) ==
  /\ Enter(t, "LowercasePrimitiveTypeName")
  /\ GenInit(t)
  /\ UNCHANGED <<map_guard, map, in_map, map_i, fatal, traitVars>>

\* lines 249-250, 233: StringToPrimitiveType(name) up to the map's static
CallStringToPrimitiveType(t) ==
  /\ Enter(t, "StringToPrimitiveType")
  /\ MapInit(t)
  /\ UNCHANGED <<gen_guard, lowercase_name_, ctor_i, fatal, traitVars>>

\* lines 258-259, 233: IsPrimitiveTypeName(name) up to the map's static
CallIsPrimitiveTypeName(t) ==
  /\ Enter(t, "IsPrimitiveTypeName")
  /\ MapInit(t)
  /\ UNCHANGED <<gen_guard, lowercase_name_, ctor_i, fatal, traitVars>>

\* line 221: a thread that waited at the static goes on once it is initialized
GenStatic(t) ==
  /\ fatal = "none"
  /\ pc[t] = "L_static"
  /\ GuardReady(gen_guard)
  /\ pc' = [pc EXCEPT ![t] = "L_name"]
  /\ UNCHANGED <<gen_guard, lowercase_name_, map_guard, map, ctor_runs, op, arg,
                 ret, in_map, ctor_i, map_i, fatal, traitVars>>

\* lines 202-209: one iteration of the constructor's loop
GenCtorStep(t) ==
  /\ fatal = "none"
  /\ pc[t] = "L_ctor"
  /\ ctor_i[t] < PrimitiveType_ARRAYSIZE
  /\ lowercase_name_' = CtorAssign(lowercase_name_, ctor_i[t])
  /\ ctor_i' = [ctor_i EXCEPT ![t] = @ + 1]
  /\ UNCHANGED <<gen_guard, map_guard, map, ctor_runs, pc, op, arg, ret, in_map,
                 map_i, fatal, traitVars>>

\* lines 210, 221: the constructor returns and the static is initialized
GenCtorDone(t) ==
  /\ fatal = "none"
  /\ pc[t] = "L_ctor"
  /\ ctor_i[t] >= PrimitiveType_ARRAYSIZE
  /\ gen_guard' = "done"
  /\ ctor_i' = [ctor_i EXCEPT ![t] = 0]
  /\ pc' = [pc EXCEPT ![t] = "L_name"]
  /\ UNCHANGED <<lowercase_name_, map_guard, map, ctor_runs, op, arg, ret, in_map,
                 map_i, fatal, traitVars>>

\* LowercaseName hands `name` back: to the caller, or to line 238 where it
\* becomes the key under which the loop's tag is stored
ReturnName(t, s, name) ==
  /\ IF in_map[t]
     THEN /\ map' = MapPut(map, name, map_i[t])
          /\ map_i' = [map_i EXCEPT ![t] = @ + 1]
          /\ pc' = [pc EXCEPT ![t] = "M_loop"]
          /\ UNCHANGED <<arg, ret>>
     ELSE /\ arg' = [arg EXCEPT ![t] = s]
          /\ ret' = [ret EXCEPT ![t] = name]
          /\ pc' = [pc EXCEPT ![t] = "idle"]
          /\ UNCHANGED <<map, map_i>>
  /\ fatal' = fatal

\* the process ends inside the call LowercasePrimitiveTypeName(s) of thread t
Die(t, s, how) ==
  /\ fatal' = how
  /\ arg' = IF in_map[t] THEN arg ELSE [arg EXCEPT ![t] = s]
  /\ pc' = [pc EXCEPT ![t] = "dead"]
  /\ UNCHANGED <<map, map_i, ret>>

\* lines 211-214, 222: gen->LowercaseName(s). Below 0 the check passes and the
\* array is read out of bounds: the read faults or yields whatever is there.
LowercaseName(t) ==
  /\ fatal = "none"
  /\ pc[t] = "L_name"
  /\ \E s \in (IF in_map[t] THEN {map_i[t]} ELSE LowercaseInputs) :
       \/ /\ ~LowercaseNameCheck(s)
          /\ Die(t, s, "CHECK_LT")
       \/ /\ LowercaseNameCheck(s)
          /\ s \in InRange
          /\ ReturnName(t, s, lowercase_name_[s])
       \/ /\ LowercaseNameCheck(s)
          /\ s \notin InRange
          /\ Die(t, s, "UB")
       \/ /\ LowercaseNameCheck(s)
          /\ s \notin InRange
          /\ \E garbage \in UBStrings : ReturnName(t, s, garbage)
  /\ UNCHANGED <<gen_guard, lowercase_name_, map_guard, ctor_runs, op, in_map,
                 ctor_i, traitVars>>

\* line 233: a thread that waited at the static goes on once it is initialized
MapStatic(t) ==
  /\ fatal = "none"
  /\ pc[t] = "M_static"
  /\ GuardReady(map_guard)
  /\ pc' = [pc EXCEPT ![t] = "M_find"]
  /\ UNCHANGED <<gen_guard, lowercase_name_, map_guard, map, ctor_runs, op, arg,
                 ret, in_map, ctor_i, map_i, fatal, traitVars>>

\* lines 235-240: the loop's test and filter; a tag that passes goes on into
\* LowercasePrimitiveTypeName(value) at line 238
MapLoopStep(t) ==
  /\ fatal = "none"
  /\ pc[t] = "M_loop"
  /\ map_i[t] < MapLoopBound
  /\ \/ /\ MapInsertCond(map_i[t])
        /\ GenInit(t)
        /\ map_i' = map_i
     \/ /\ ~MapInsertCond(map_i[t])
        /\ map_i' = [map_i EXCEPT ![t] = @ + 1]
        /\ UNCHANGED <<gen_guard, lowercase_name_, ctor_runs, ctor_i, pc>>
  /\ UNCHANGED <<map_guard, map, op, arg, ret, in_map, fatal, traitVars>>

\* line 241: (*map)["opaque"] = OPAQUE_TYPE, after the loop
MapAlias(t) ==
  /\ fatal = "none"
  /\ pc[t] = "M_loop"
  /\ map_i[t] >= MapLoopBound
  /\ map' = MapPut(map, AliasKey, OPAQUE_TYPE)
  /\ pc' = [pc EXCEPT ![t] = "M_return"]
  /\ UNCHANGED <<gen_guard, lowercase_name_, map_guard, ctor_runs, op, arg, ret,
                 in_map, ctor_i, map_i, fatal, traitVars>>

\* lines 242-244: the lambda returns and name_to_type is initialized
MapReturn(t) ==
  /\ fatal = "none"
  /\ pc[t] = "M_return"
  /\ map_guard' = "done"
  /\ in_map' = [in_map EXCEPT ![t] = FALSE]
  /\ map_i' = [map_i EXCEPT ![t] = 0]
  /\ pc' = [pc EXCEPT ![t] = "M_find"]
  /\ UNCHANGED <<gen_guard, lowercase_name_, map, ctor_runs, op, arg, ret, ctor_i,
                 fatal, traitVars>>

\* lines 251-255: the lookup of StringToPrimitiveType and its result
ReturnStringToPrimitiveType(t) ==
  /\ fatal = "none"
  /\ pc[t] = "M_find"
  /\ op[t] = "StringToPrimitiveType"
  /\ \E name \in QueryNames \cup ReturnedNames :
       /\ arg' = [arg EXCEPT ![t] = name]
       /\ ret' = [ret EXCEPT ![t] = StringToPrimitiveType(map, name)]
  /\ pc' = [pc EXCEPT ![t] = "idle"]
  /\ UNCHANGED <<gen_guard, lowercase_name_, map_guard, map, ctor_runs, op,
                 in_map, ctor_i, map_i, fatal, traitVars>>

\* lines 260-261: the lookup of IsPrimitiveTypeName and its result
ReturnIsPrimitiveTypeName(t) ==
  /\ fatal = "none"
  /\ pc[t] = "M_find"
  /\ op[t] = "IsPrimitiveTypeName"
  /\ \E name \in QueryNames \cup ReturnedNames :
       /\ arg' = [arg EXCEPT ![t] = name]
       /\ ret' = [ret EXCEPT ![t] = IsPrimitiveTypeName(map, name)]
  /\ pc' = [pc EXCEPT ![t] = "idle"]
  /\ UNCHANGED <<gen_guard, lowercase_name_, map_guard, map, ctor_runs, op,
                 in_map, ctor_i, map_i, fatal, traitVars>>

Next ==
  \E t \in Threads :
    \/ CallLowercasePrimitiveTypeName(t)
    \/ CallStringToPrimitiveType(t)
    \/ CallIsPrimitiveTypeName(t)
    \/ GenStatic(t)
    \/ GenCtorStep(t)
    \/ GenCtorDone(t)
    \/ LowercaseName(t)
    \/ MapStatic(t)
    \/ MapLoopStep(t)
    \/ MapAlias(t)
    \/ MapReturn(t)
    \/ ReturnStringToPrimitiveType(t)
    \/ ReturnIsPrimitiveTypeName(t)

Spec == Init /\ [][Next]_vars

(***************************************************************************)
(* The trait queries: pure functions of the tag, applied to every tag of   *)
(* TagInputs. A fatal outcome ends the process.                            *)
(***************************************************************************)
Query(fn, outcome, type) ==
  /\ ~t_ret.fatal
  /\ t_fn' = fn
  /\ t_type' = type
  /\ t_ret' = outcome
  /\ UNCHANGED registryVars

CallSignificandWidth ==
  \E type \in TagInputs : Query("SignificandWidth", SignificandWidth(type), type)

CallExponentWidth ==
  \E type \in TagInputs : Query("ExponentWidth", ExponentWidth(type), type)

CallUnderflowExponent ==
  \E type \in TagInputs : Query("UnderflowExponent", UnderflowExponent(type), type)

CallOverflowExponent ==
  \E type \in TagInputs : Query("OverflowExponent", OverflowExponent(type), type)

CallExponentBias ==
  \E type \in TagInputs : Query("ExponentBias", ExponentBias(type), type)

CallHasInfinity ==
  \E type \in TagInputs : Query("HasInfinity", HasInfinity(type), type)

NextTraits ==
  \/ CallSignificandWidth
  \/ CallExponentWidth
  \/ CallUnderflowExponent
  \/ CallOverflowExponent
  \/ CallExponentBias
  \/ CallHasInfinity

SpecTraits == Init /\ [][NextTraits]_vars

(***************************************************************************)
(* Properties.                                                             *)
(***************************************************************************)
\* thread t has returned from a call of fn; arg[t] and ret[t] are that call's
Returned(t, fn) == op[t] = fn /\ pc[t] = "idle"

MapBuilt == map_guard = "done"

FiveFatalQueries ==
  {"SignificandWidth", "ExponentWidth", "UnderflowExponent", "OverflowExponent",
   "ExponentBias"}

GenericBiasTags == {F16, F32, F64, BF16, F8E5M2, F8E4M3FN}

\* the round trip of tag t through the built table and map
RoundTrips(t) ==
  StringToPrimitiveType(map, lowercase_name_[t]) = OkStatus(t)

\* C1 (as amended): once the registry is built, every valid tag other than
\* PRIMITIVE_TYPE_INVALID whose canonical name is non-empty parses back from
\* that name to itself, in the tables and in what callers were handed.
C1_RoundTripExceptInvalid ==
  /\ MapBuilt =>
       \A t \in InRange :
         (PrimitiveType_IsValid(t) /\ t # PRIMITIVE_TYPE_INVALID
            /\ lowercase_name_[t] # EmptyString) => RoundTrips(t)
  /\ \A u, v \in Threads :
       (/\ Returned(u, "LowercasePrimitiveTypeName")
        /\ Returned(v, "StringToPrimitiveType")
        /\ arg[u] \in InRange
        /\ arg[u] # PRIMITIVE_TYPE_INVALID
        /\ ret[u] # EmptyString
        /\ arg[v] = ret[u]) => ret[v] = OkStatus(arg[u])

\* C1 as stated: the round trip holds for every valid tag with a non-empty
\* name, PRIMITIVE_TYPE_INVALID included.
C1_RoundTripEveryValidTag ==
  MapBuilt =>
    \A t \in InRange :
      (PrimitiveType_IsValid(t) /\ lowercase_name_[t] # EmptyString)
        => RoundTrips(t)

\* a caller was handed the last tag's name and parsed it back to that tag
C1_Witness ==
  \E u, v \in Threads :
    /\ Returned(u, "LowercasePrimitiveTypeName")
    /\ arg[u] = F8E4M3FNUZ
    /\ Returned(v, "StringToPrimitiveType")
    /\ arg[v] = ret[u]
    /\ ret[v] = OkStatus(F8E4M3FNUZ)

GenComplete ==
  /\ gen_guard = "done"
  /\ \A u \in Threads : pc[u] # "L_ctor"
  /\ \A i \in InRange : lowercase_name_[i] # EmptyString

\* the reverse map is fully constructed, the "opaque" insertion included
MapComplete ==
  /\ map_guard = "done"
  /\ \A u \in Threads : ~in_map[u]
  /\ Opaque \in DOMAIN map
  /\ \A i \in InRange : MapInsertCond(i) => lowercase_name_[i] \in DOMAIN map

\* C3: under every interleaving of the threads' calls, each of the two
\* structures is constructed at most once (exactly once before any read), and
\* a thread about to read one finds it fully constructed.
C3_ConstructedOnceAndComplete ==
  /\ ctor_runs.gen <= 1
  /\ ctor_runs.map <= 1
  /\ \A t \in Threads :
       /\ pc[t] = "L_name" => (GenComplete /\ ctor_runs.gen = 1)
       /\ pc[t] = "M_find" => (MapComplete /\ GenComplete /\ ctor_runs.map = 1)

\* a thread is about to read the map while another, which had to wait for the
\* constructions, is about to read the table
C3_Witness ==
  \E u, v \in Threads :
    /\ u # v
    /\ pc[u] = "M_find"
    /\ pc[v] = "L_name"
    /\ ~in_map[v]
    /\ ctor_runs = [gen |-> 1, map |-> 1]

KnownNames ==
  QueryNames \cup DOMAIN map \cup {lowercase_name_[i] : i \in InRange}
             \cup {PrimitiveType_Name(i) : i \in InRange}

\* C5: IsPrimitiveTypeName(name) is true exactly when
\* StringToPrimitiveType(name) yields a value, for every name and whenever the
\* two are asked; IsPrimitiveTypeName returns a boolean and no error.
C5_IsNameIffParses ==
  /\ MapBuilt =>
       \A name \in KnownNames :
         IsPrimitiveTypeName(map, name) = StringToPrimitiveType(map, name).ok
  /\ \A u, v \in Threads :
       (/\ Returned(u, "IsPrimitiveTypeName")
        /\ Returned(v, "StringToPrimitiveType")
        /\ arg[u] = arg[v]) => ret[u] = ret[v].ok
  /\ \A u \in Threads :
       Returned(u, "IsPrimitiveTypeName") => ret[u] \in BOOLEAN

\* the upper-case spelling was refused by both functions
C5_Witness ==
  \E u, v \in Threads :
    /\ Returned(u, "IsPrimitiveTypeName")
    /\ Returned(v, "StringToPrimitiveType")
    /\ arg[u] = <<"F", "3", "2">>
    /\ arg[v] = arg[u]
    /\ ret[u] = FALSE
    /\ ~ret[v].ok

\* C6: each of the five width, exponent and bias queries ends the process on
\* every tag outside the nine floating-point tags, and on none of the nine.
C6_FatalExactlyOffFloats ==
  t_fn \in FiveFatalQueries => (t_ret.fatal <=> t_type \notin FloatingPointTags)

\* ExponentWidth of a 32-bit integer tag ended the process
C6_Witness ==
  t_fn = "ExponentWidth" /\ t_type = S32 /\ t_ret.fatal

\* the exponent width by the claim's formula, from the bit width and the
\* significand width
ClaimedExponentWidth(type) ==
  BitWidth(type).value - (SignificandWidth(type).value - 1) - 1

\* C7: ExponentBias is 2^(ExponentWidth - 1) - 1 on F16, F32, F64, BF16, F8E5M2
\* and F8E4M3FN, with ExponentWidth = BitWidth - (SignificandWidth - 1) - 1,
\* and is 11, 8 and 16 on F8E4M3B11FNUZ, F8E4M3FNUZ and F8E5M2FNUZ.
C7_ExponentBias ==
  t_fn = "ExponentBias" =>
    /\ t_type \in GenericBiasTags =>
         /\ ExponentWidth(t_type) = Ret(ClaimedExponentWidth(t_type))
         /\ t_ret = Ret(2 ^ (ClaimedExponentWidth(t_type) - 1) - 1)
    /\ t_type = F8E4M3B11FNUZ => t_ret = Ret(11)
    /\ t_type = F8E4M3FNUZ => t_ret = Ret(8)
    /\ t_type = F8E5M2FNUZ => t_ret = Ret(16)

\* ExponentBias of F8E4M3FN came out as 7
C7_Witness ==
  t_fn = "ExponentBias" /\ t_type = F8E4M3FN /\ t_ret = Ret(7)

\* C8 as stated: a call of LowercasePrimitiveTypeName with a tag below 0 or at
\* or above PrimitiveType_ARRAYSIZE never returns and ends the process by the
\* bounds check; with an in-range tag that is neither valid nor OPAQUE_TYPE
\* it returns the empty string.
C8_OutOfRangeIsFatalCheck ==
  \A t \in Threads :
    (op[t] = "LowercasePrimitiveTypeName" /\ ~in_map[t]
       /\ pc[t] \in {"idle", "dead"}) =>
      /\ arg[t] \notin InRange => (pc[t] = "dead" /\ fatal = "CHECK_LT")
      /\ (/\ arg[t] \in InRange
          /\ ~PrimitiveType_IsValid(arg[t])
          /\ arg[t] # OPAQUE_TYPE
          /\ pc[t] = "idle") => ret[t] = EmptyString

\* thread t takes the lookup step of StringToPrimitiveType with a name that is
\* no key of the map
FailedLookupStep(t) ==
  /\ pc[t] = "M_find"
  /\ pc'[t] = "idle"
  /\ op[t] = "StringToPrimitiveType"
  /\ arg'[t] \notin DOMAIN map

\* C9: StringToPrimitiveType of a name that is no key of the map returns an
\* InvalidArgument error whose message contains the name, does not end the
\* process, and leaves table and map as they were; once built, table and map
\* never change, so later lookups answer as before.
C9_UnknownNameIsError ==
  [][/\ \A t \in Threads :
          FailedLookupStep(t) =>
            /\ ~ret'[t].ok
            /\ ret'[t].code = "INVALID_ARGUMENT"
            /\ Contains(ret'[t].message, arg'[t])
            /\ fatal' = "none"
            /\ UNCHANGED <<gen_guard, lowercase_name_, map_guard, map>>
     /\ MapBuilt => UNCHANGED <<gen_guard, lowercase_name_, map_guard, map>>
    ]_vars

\* "not_a_real_type" was refused with a message that quotes it
C9_Witness ==
  \E t \in Threads :
    /\ Returned(t, "StringToPrimitiveType")
    /\ arg[t] = NotARealType
    /\ ~ret[t].ok
    /\ Contains(ret[t].message, NotARealType)

====
